---- MODULE Spec2Model ----
(***************************************************************************)
(* Model of the cybersecurity-rrt rules engine: GameConfig, the catalog of *)
(* hacker cards, TableState::setup_game, TableState::valid_choices and     *)
(* TableState::perform (cybersecurity-rrt-logic/src/game/logic.rs, mod.rs  *)
(* and defs.rs).                                                           *)
(***************************************************************************)
EXTENDS Integers, Sequences, FiniteSets, TLC

\* ------------------------------------------------------------------------
\* Bounds of the exploration
\* ------------------------------------------------------------------------
\* largest roster a session is set up with
MaxOperators == 2
\* shuffles tried by setup are numbered 0..MaxSeed
MaxSeed == 1
\* number of perform calls in one run
MaxSteps == 2
\* FirewallDelta arguments are -MaxDelta..MaxDelta and the two i8 extremes
MaxDelta == 4
\* DatabaseRemove / WebserviceRemove arguments are 0..MaxIndex
MaxIndex == 6
\* operator ids carried by events and choice states are 0..MaxOpId
MaxOpId == 1
\* rosters handed to GameConfig::new: every sequence of at most MaxRosterLen
\* of the first MaxRosterTypes operator types (and the rosters of the tests)
MaxRosterLen == 4
MaxRosterTypes == 3

\* ------------------------------------------------------------------------
\* defs.rs: the catalog
\* ------------------------------------------------------------------------
NO_HACKER == 66
HackerCount == 66

\* defs::HACKERS[id].value(): 13 cards of each value 1..4, 7 of value 5 and 6
HackerValue(id) ==
    IF id < 13 THEN 1
    ELSE IF id < 26 THEN 2
    ELSE IF id < 39 THEN 3
    ELSE IF id < 52 THEN 4
    ELSE IF id < 59 THEN 5
    ELSE 6

\* tests::OPERATORS, the roster order used to build configs
OPERATORS == <<"Stone", "Sniper", "Rogue", "Biggs", "Admin", "Charm", "Rich">>

Difficulty == {"Easy", "Normal", "Hard", "Heroic"}

\* ------------------------------------------------------------------------
\* mod.rs: data types
\* ------------------------------------------------------------------------
\* HackerCard::new
HackerCard(hacker) == [hacker |-> hacker, face_up |-> FALSE]

\* OperatorState::new
OperatorState(operator) ==
    [secure_slots   |-> <<NO_HACKER, NO_HACKER, NO_HACKER>>,
     backtrace_list |-> <<>>,
     burnout        |-> FALSE,
     desperation    |-> FALSE,
     idle           |-> FALSE,
     skills         |-> <<operator>>]

OpIds == 0..MaxOpId

\* enum ChoiceState
ChoiceStateWithOp(tag, op) == [tag |-> tag, op |-> op]
ChoiceStateNoOp(tag) == [tag |-> tag]
ChooseAction(op) == ChoiceStateWithOp("ChooseAction", op)
GameOver == ChoiceStateNoOp("GameOver")
ChoiceStates ==
    {ChoiceStateWithOp(t, op) :
        t \in {"Flow", "Face", "Skill", "DiscardLeft", "ChooseAction"}, op \in OpIds}
    \cup {ChoiceStateNoOp(t) :
        t \in {"CharmDesperationFlow", "BiggsFlow", "BiggsDesperationFlow", "GameOver"}}

\* enum Choice
ChoiceIdle == [type |-> "Idle"]
ChoiceFace == [type |-> "Face"]
ChoiceAssist(op) == [type |-> "Assist", op |-> op]

\* enum TableEvent (with the ChoiceState event that perform handles)
Deltas == (-MaxDelta..MaxDelta) \cup {-128, 127}
Indices == 0..MaxIndex
FirewallDelta(d) == [type |-> "FirewallDelta", delta |-> d]
DatabaseRemove(i) == [type |-> "DatabaseRemove", idx |-> i]
WebserviceRemove(i) == [type |-> "WebserviceRemove", idx |-> i]
EvFace == [type |-> "Face"]
EvIdle == [type |-> "Idle"]
EvAssist(op) == [type |-> "Assist", op |-> op]
EvActiveOperator(op) == [type |-> "ActiveOperator", op |-> op]
EvChoiceState(x) == [type |-> "ChoiceState", next |-> x]
NoEvent == [type |-> "None"]

\* ------------------------------------------------------------------------
\* State
\* ------------------------------------------------------------------------
VARIABLES
    config,           \* GameConfig {operators, difficulty}
    firewalls, databases, webservices,
    hackers, breach, discard,
    round, facing, active_operator,
    operators, choice_state,
    dealt,            \* the draw pile as setup_game built it
    new_call,         \* the call of GameConfig::new: its arguments and its Result
    last,             \* the last event handed to perform and its outcome
    steps             \* number of perform calls so far

tableVars == <<firewalls, databases, webservices, hackers, breach, discard,
               round, facing, active_operator, operators, choice_state>>
vars == <<config, firewalls, databases, webservices, hackers, breach, discard,
          round, facing, active_operator, operators, choice_state,
          dealt, new_call, last, steps>>

\* the TableState as one value
self == [firewalls       |-> firewalls,
         databases       |-> databases,
         webservices     |-> webservices,
         hackers         |-> hackers,
         breach          |-> breach,
         discard         |-> discard,
         round           |-> round,
         facing          |-> facing,
         active_operator |-> active_operator,
         operators       |-> operators,
         choice_state    |-> choice_state]

\* ------------------------------------------------------------------------
\* mod.rs: GameConfig::new
\* ------------------------------------------------------------------------
\* capacity of ArrayVec<OperatorType, 7>
OperatorCapacity == 7

\* Result<GameConfig, GameConfigError>
ConfigOk(difficulty, ops) ==
    [ok |-> TRUE, config |-> [difficulty |-> difficulty, operators |-> ops]]
ConfigErr(error) == [ok |-> FALSE, error |-> error]
NoOperators == [kind |-> "NoOperators"]
DuplicateOperator(operator) == [kind |-> "DuplicateOperator", operator |-> operator]

\* the loop over operators.iter() with the HashSet uniq: the first operator
\* that uniq already contains, or "none"
RECURSIVE FirstDuplicate_by_first_occurrence(_, _, _)
FirstDuplicate_by_first_occurrence(ops, i, uniq) ==
    IF i > Len(ops) THEN "none"
    ELSE IF \E j \in (i + 1)..Len(ops) : ops[j] = ops[i] THEN ops[i]
    ELSE FirstDuplicate_by_first_occurrence(ops, i + 1, uniq \cup {ops[i]})
RECURSIVE FirstDuplicate(_, _, _)
FirstDuplicate(ops, i, uniq) ==
    IF i > Len(ops) THEN "none"
    ELSE IF ops[i] \in uniq THEN ops[i]
    ELSE FirstDuplicate(ops, i + 1, uniq \cup {ops[i]})

GameConfig_new_no_empty_check(difficulty, ops) ==
    IF FirstDuplicate(ops, 1, {}) # "none"
    THEN ConfigErr(DuplicateOperator(FirstDuplicate(ops, 1, {})))
    ELSE ConfigOk(difficulty, ops)
\* GameConfig::new
GameConfig_new(difficulty, ops) ==
    IF Len(ops) = 0
    THEN ConfigErr(NoOperators)
    ELSE IF FirstDuplicate(ops, 1, {}) # "none"
    THEN ConfigErr(DuplicateOperator(FirstDuplicate(ops, 1, {})))
    ELSE ConfigOk(difficulty, ops)

\* a call of GameConfig::new with its Result
NewCall(difficulty, ops) ==
    [called     |-> TRUE,
     difficulty |-> difficulty,
     operators  |-> ops,
     result     |-> GameConfig_new(difficulty, ops)]
NoCall == [called |-> FALSE]

\* ------------------------------------------------------------------------
\* logic.rs: setup
\* ------------------------------------------------------------------------
\* difficulty_mod: (firewall mod, hacker multiplier). logic.rs imports only
\* Difficulty::Easy (line 6), so in `match difficulty` the arm `Easy` is the
\* variant and the arm `Normal` is an identifier pattern that binds every
\* other value; the arms `Hard` and `Heroic` are never reached.
difficulty_mod(difficulty) ==
    CASE difficulty = "Easy" -> <<3, 6>>
      [] OTHER               -> <<2, 7>>

\* init_operators: one fresh OperatorState per roster entry, same index
init_operators(ops) == [i \in 1..Len(ops) |-> OperatorState(ops[i])]

\* the ids of defs::HACKERS with value() <= 4, in catalog order
RECURSIVE FilterValid_all(_)
FilterValid_all(id) ==
    IF id >= HackerCount THEN <<>>
    ELSE <<HackerCard(id)>> \o FilterValid_all(id + 1)
RECURSIVE FilterValid(_)
FilterValid(id) ==
    IF id >= HackerCount THEN <<>>
    ELSE (IF HackerValue(id) <= 4 THEN <<HackerCard(id)>> ELSE <<>>)
         \o FilterValid(id + 1)
valid_hackers == FilterValid(0)

\* one outcome of valid_hackers.shuffle(&mut rng): a permutation of the
\* valid cards. seed stands for the state of rand::thread_rng(), which the
\* code takes from the thread and not from a parameter of shuffle or
\* setup_game
Stride(seed) == IF seed % 2 = 0 THEN 1 ELSE 5
Shuffled(seed) ==
    LET n == Len(valid_hackers)
    IN  [i \in 1..n |-> valid_hackers[(((i - 1) * Stride(seed) + 7 * seed) % n) + 1]]

\* take(hackers) of a sequence
Take(s, n) == SubSeq(s, 1, IF n < Len(s) THEN n ELSE Len(s))

\* shuffle(hackers)
shuffle(n, seed) == Take(Shuffled(seed), n)

\* TableState::setup_game
setup_game(cfg, seed) ==
    LET dm == difficulty_mod(cfg.difficulty)
    IN  [firewalls       |-> (Len(cfg.operators) + dm[1]) % 256,
         databases       |-> [i \in 0..2 |-> TRUE],
         webservices     |-> [i \in 0..5 |-> TRUE],
         hackers         |-> shuffle(Len(cfg.operators) * dm[2], seed),
         breach          |-> <<>>,
         discard         |-> <<>>,
         round           |-> 0,
         facing          |-> NO_HACKER,
         active_operator |-> 0,
         operators       |-> init_operators(cfg.operators),
         choice_state    |-> ChooseAction(0)]

\* the configs a session is set up with: GameConfig::new(difficulty,
\* get_operators(n)) as in the tests
get_operators(n) == SubSeq(OPERATORS, 1, n)
Configs ==
    {[difficulty |-> d, operators |-> get_operators(n)] :
        d \in Difficulty, n \in 1..MaxOperators}

\* ------------------------------------------------------------------------
\* logic.rs: valid_choices
\* ------------------------------------------------------------------------
\* the Assist loop stopping one roster entry early
RECURSIVE AssistChoices_short(_, _, _)
AssistChoices_short(i, n, operator) ==
    IF i >= n - 1 THEN <<>>
    ELSE (IF i # operator THEN <<ChoiceAssist(i)>> ELSE <<>>)
         \o AssistChoices_short(i + 1, n, operator)

\* the loop `for i in 0..self.operators.len()` pushing Assist(i) for i != operator
RECURSIVE AssistChoices(_, _, _)
AssistChoices(i, n, operator) ==
    IF i >= n THEN <<>>
    ELSE (IF i # operator THEN <<ChoiceAssist(i)>> ELSE <<>>)
         \o AssistChoices(i + 1, n, operator)

\* TableState::valid_choices; panics outside ChooseAction
valid_choices(t) ==
    IF t.choice_state.tag = "ChooseAction"
    THEN [panic   |-> FALSE,
          choices |-> <<ChoiceIdle>>
                      \o (IF t.hackers # <<>> THEN <<ChoiceFace>> ELSE <<>>)
                      \o AssistChoices(0, Len(t.operators), t.choice_state.op)]
    ELSE [panic |-> TRUE, choices |-> <<>>]

\* TableState::choose: every choice panics ("choice not implemented")
choose(t, choice) == [panic |-> TRUE, events |-> <<>>]

\* ------------------------------------------------------------------------
\* logic.rs: perform
\* ------------------------------------------------------------------------
Ok(t) == [state |-> t, result |-> "ok"]
Panic(t, msg) == [state |-> t, result |-> msg]

\* `x as i8` of a u8
AsI8(x) == IF x >= 128 THEN x - 256 ELSE x
\* wrapping i8 addition
WrapI8(x) == ((x + 128) % 256) - 128

\* 0..=3, the band FirewallDelta keeps firewalls in
FirewallBandMax == 3

\* FirewallDelta that clamps an out-of-band result instead of rejecting it
perform_FirewallDelta_clamp(t, delta, overflow_checks) ==
    LET exact == AsI8(t.firewalls) + delta
        result == WrapI8(exact)
    IN  IF overflow_checks /\ exact # result
        THEN Panic(t, "attempt to add with overflow")
        ELSE IF result < 0
        THEN Ok([t EXCEPT !.firewalls = 0])
        ELSE IF result > FirewallBandMax
        THEN Ok([t EXCEPT !.firewalls = FirewallBandMax])
        ELSE Ok([t EXCEPT !.firewalls = result % 256])

\* FirewallDelta that only checks the upper end of the band
perform_FirewallDelta_upper_only(t, delta, overflow_checks) ==
    LET exact == AsI8(t.firewalls) + delta
        result == WrapI8(exact)
    IN  IF overflow_checks /\ exact # result
        THEN Panic(t, "attempt to add with overflow")
        ELSE IF ~(result <= FirewallBandMax)
        THEN Panic(t, "delta out of range")
        ELSE Ok([t EXCEPT !.firewalls = result % 256])

\* FirewallDelta(delta); overflow_checks is the build's setting for the i8 add
perform_FirewallDelta(t, delta, overflow_checks) ==
    LET exact == AsI8(t.firewalls) + delta
        result == WrapI8(exact)
    IN  IF overflow_checks /\ exact # result
        THEN Panic(t, "attempt to add with overflow")
        ELSE IF ~(result >= 0 /\ result <= FirewallBandMax)
        THEN Panic(t, "delta out of range")
        ELSE Ok([t EXCEPT !.firewalls = result % 256])

\* DatabaseRemove that accepts the removal of an already removed database
perform_DatabaseRemove_idempotent(t, idx) ==
    IF ~(idx >= 0 /\ idx < 3)
    THEN Panic(t, "database index out of range")
    ELSE Ok([t EXCEPT !.databases[idx] = FALSE])

\* DatabaseRemove(idx)
perform_DatabaseRemove(t, idx) ==
    IF ~(idx >= 0 /\ idx < 3)
    THEN Panic(t, "database index out of range")
    ELSE IF ~t.databases[idx]
    THEN Panic(t, "database already removed")
    ELSE Ok([t EXCEPT !.databases[idx] = FALSE])

\* WebserviceRemove that removes every webservice up to idx
perform_WebserviceRemove_upto(t, idx) ==
    IF ~(idx >= 0 /\ idx < 5)
    THEN Panic(t, "webservice index out of range")
    ELSE IF ~t.webservices[idx]
    THEN Panic(t, "webservice already removed")
    ELSE Ok([t EXCEPT !.webservices =
                [i \in DOMAIN t.webservices |-> t.webservices[i] /\ i > idx]])

\* WebserviceRemove(idx)
perform_WebserviceRemove(t, idx) ==
    IF ~(idx >= 0 /\ idx < 5)
    THEN Panic(t, "webservice index out of range")
    ELSE IF ~t.webservices[idx]
    THEN Panic(t, "webservice already removed")
    ELSE Ok([t EXCEPT !.webservices[idx] = FALSE])

\* Face that reads the top card and leaves it on the pile
perform_Face_peek(t) ==
    IF t.facing # NO_HACKER
    THEN Panic(t, "cannot face, already facing")
    ELSE IF t.hackers = <<>>
    THEN Panic(t, "cannot face, hacker deck is empty")
    ELSE Ok([t EXCEPT !.facing = t.hackers[Len(t.hackers)].hacker])

\* Face that pops the pile before it checks that no card is being faced
perform_Face_pop_first(t) ==
    LET popped == [t EXCEPT !.hackers = SubSeq(t.hackers, 1, Len(t.hackers) - 1)]
    IN  IF t.hackers = <<>>
        THEN Panic(t, "cannot face, hacker deck is empty")
        ELSE IF t.facing # NO_HACKER
        THEN Panic(popped, "cannot face, already facing")
        ELSE Ok([popped EXCEPT !.facing = t.hackers[Len(t.hackers)].hacker])

\* Face that takes the bottom (first) card of the pile
perform_Face_bottom(t) ==
    IF t.facing # NO_HACKER
    THEN Panic(t, "cannot face, already facing")
    ELSE IF t.hackers = <<>>
    THEN Panic(t, "cannot face, hacker deck is empty")
    ELSE Ok([t EXCEPT !.facing = t.hackers[1].hacker,
                      !.hackers = SubSeq(t.hackers, 2, Len(t.hackers))])

\* Face: hackers.pop() takes the last element of the pile
perform_Face(t) ==
    IF t.facing # NO_HACKER
    THEN Panic(t, "cannot face, already facing")
    ELSE IF t.hackers = <<>>
    THEN Panic(t, "cannot face, hacker deck is empty")
    ELSE Ok([t EXCEPT !.facing = t.hackers[Len(t.hackers)].hacker,
                      !.hackers = SubSeq(t.hackers, 1, Len(t.hackers) - 1)])

\* self.active_operator(): index of the active operator's OperatorState
active_operator_index(t) == t.active_operator + 1

\* Idle that marks every operator of the roster idle
perform_Idle_all(t) ==
    IF active_operator_index(t) \notin DOMAIN t.operators
    THEN Panic(t, "index out of bounds")
    ELSE IF t.operators[active_operator_index(t)].idle
    THEN Panic(t, "cannot idle, already idle")
    ELSE Ok([t EXCEPT !.operators =
                [i \in DOMAIN t.operators |-> [t.operators[i] EXCEPT !.idle = TRUE]]])

\* Idle
perform_Idle(t) ==
    IF active_operator_index(t) \notin DOMAIN t.operators
    THEN Panic(t, "index out of bounds")
    ELSE IF t.operators[active_operator_index(t)].idle
    THEN Panic(t, "cannot idle, already idle")
    ELSE Ok([t EXCEPT !.operators[active_operator_index(t)].idle = TRUE])

\* ChoiceState(x) that leaves the machine state as it is
perform_ChoiceState_ignore(t, x) == Ok(t)

\* ChoiceState(x)
perform_ChoiceState(t, x) == Ok([t EXCEPT !.choice_state = x])

\* the `_ => panic!("event not implemented")` arm
perform_other(t) == Panic(t, "event not implemented")

\* TableState::perform
perform(t, event, overflow_checks) ==
    CASE event.type = "FirewallDelta"    -> perform_FirewallDelta(t, event.delta, overflow_checks)
      [] event.type = "DatabaseRemove"   -> perform_DatabaseRemove(t, event.idx)
      [] event.type = "WebserviceRemove" -> perform_WebserviceRemove(t, event.idx)
      [] event.type = "Face"             -> perform_Face(t)
      [] event.type = "Idle"             -> perform_Idle(t)
      [] event.type = "ChoiceState"      -> perform_ChoiceState(t, event.next)
      [] OTHER                           -> perform_other(t)

\* ------------------------------------------------------------------------
\* The state machine
\* ------------------------------------------------------------------------
SetTable(t) ==
    /\ firewalls = t.firewalls
    /\ databases = t.databases
    /\ webservices = t.webservices
    /\ hackers = t.hackers
    /\ breach = t.breach
    /\ discard = t.discard
    /\ round = t.round
    /\ facing = t.facing
    /\ active_operator = t.active_operator
    /\ operators = t.operators
    /\ choice_state = t.choice_state

\* the state returned by setup_game for a valid config
Init ==
    \E cfg \in Configs, seed \in 0..MaxSeed :
        \E t \in {setup_game(cfg, seed)} :
            /\ new_call = NewCall(cfg.difficulty, cfg.operators)
            /\ config = cfg
            /\ SetTable(t)
            /\ dealt = t.hackers
            /\ last = [event |-> NoEvent, result |-> "none"]
            /\ steps = 0

\* a panic ends the run
Running == last.result \in {"none", "ok"} /\ steps < MaxSteps

\* one call of perform(event), in a build with or without overflow checks;
\* r is the outcome of the call, computed once
Perform(event, overflow_checks) ==
    /\ Running
    /\ \E r \in {perform(self, event, overflow_checks)} :
           /\ firewalls' = r.state.firewalls
           /\ databases' = r.state.databases
           /\ webservices' = r.state.webservices
           /\ hackers' = r.state.hackers
           /\ breach' = r.state.breach
           /\ discard' = r.state.discard
           /\ round' = r.state.round
           /\ facing' = r.state.facing
           /\ active_operator' = r.state.active_operator
           /\ operators' = r.state.operators
           /\ choice_state' = r.state.choice_state
           /\ last' = [event |-> event, result |-> r.result]
    /\ steps' = steps + 1
    /\ UNCHANGED <<config, dealt, new_call>>

DoFirewallDelta ==
    \E d \in Deltas, overflow_checks \in BOOLEAN : Perform(FirewallDelta(d), overflow_checks)
DoDatabaseRemove == \E i \in Indices : Perform(DatabaseRemove(i), FALSE)
DoWebserviceRemove == \E i \in Indices : Perform(WebserviceRemove(i), FALSE)
DoFace == Perform(EvFace, FALSE)
DoIdle == Perform(EvIdle, FALSE)
DoAssist == \E op \in OpIds : Perform(EvAssist(op), FALSE)
DoActiveOperator == \E op \in OpIds : Perform(EvActiveOperator(op), FALSE)
DoChoiceState == \E x \in ChoiceStates : Perform(EvChoiceState(x), FALSE)

Next ==
    \/ DoFirewallDelta
    \/ DoDatabaseRemove
    \/ DoWebserviceRemove
    \/ DoFace
    \/ DoIdle
    \/ DoAssist
    \/ DoActiveOperator
    \/ DoChoiceState

Spec == Init /\ [][Next]_vars

TypeOK ==
    /\ firewalls \in 0..255
    /\ facing \in 0..NO_HACKER
    /\ steps \in 0..MaxSteps

\* ------------------------------------------------------------------------
\* FirewallDelta with every i8 delta, from the setup of every roster size
\* ------------------------------------------------------------------------
\* the values of the i8 carried by TableEvent::FirewallDelta
I8 == -128..127

\* the configs of 1 to 7 operators
AllConfigs ==
    {[difficulty |-> d, operators |-> get_operators(n)] :
        d \in Difficulty, n \in 1..OperatorCapacity}

InitFirewall ==
    \E cfg \in AllConfigs :
        \E t \in {setup_game(cfg, 0)} :
            /\ new_call = NewCall(cfg.difficulty, cfg.operators)
            /\ config = cfg
            /\ SetTable(t)
            /\ dealt = t.hackers
            /\ last = [event |-> NoEvent, result |-> "none"]
            /\ steps = 0

DoFirewallDeltaI8 ==
    \E d \in I8, overflow_checks \in BOOLEAN : Perform(FirewallDelta(d), overflow_checks)

NextFirewall == DoFirewallDeltaI8

SpecFirewall == InitFirewall /\ [][NextFirewall]_vars

\* ------------------------------------------------------------------------
\* The session from GameConfig::new to setup_game
\* ------------------------------------------------------------------------
\* the rosters handed to GameConfig::new
RosterTypes ==
    {OPERATORS[i] : i \in 1..(IF MaxRosterTypes < Len(OPERATORS)
                              THEN MaxRosterTypes ELSE Len(OPERATORS))}
RosterLens ==
    0..(IF MaxRosterLen < OperatorCapacity THEN MaxRosterLen ELSE OperatorCapacity)
Rosters ==
    UNION {[1..n -> RosterTypes] : n \in RosterLens}
    \cup {get_operators(n) : n \in 1..OperatorCapacity}

\* no GameConfig and no TableState yet
NoConfig == [none |-> TRUE]
NoChoiceState == ChoiceStateNoOp("None")
NoTable ==
    [firewalls       |-> 0,
     databases       |-> <<>>,
     webservices     |-> <<>>,
     hackers         |-> <<>>,
     breach          |-> <<>>,
     discard         |-> <<>>,
     round           |-> 0,
     facing          |-> NO_HACKER,
     active_operator |-> 0,
     operators       |-> <<>>,
     choice_state    |-> NoChoiceState]

InitSession ==
    /\ new_call = NoCall
    /\ config = NoConfig
    /\ SetTable(NoTable)
    /\ dealt = <<>>
    /\ last = [event |-> NoEvent, result |-> "none"]
    /\ steps = 0

\* GameConfig::new(difficulty, operators); config is the unwrapped Result
NewConfig ==
    /\ ~new_call.called
    /\ \E difficulty \in Difficulty, ops \in Rosters :
        \E c \in {NewCall(difficulty, ops)} :
            /\ new_call' = c
            /\ config' = IF c.result.ok THEN c.result.config ELSE NoConfig
    /\ UNCHANGED <<tableVars, dealt, last, steps>>

\* TableState::setup_game(&config)
SetupGame ==
    /\ new_call.called
    /\ new_call.result.ok
    /\ choice_state = NoChoiceState
    /\ \E seed \in 0..MaxSeed :
        \E t \in {setup_game(config, seed)} :
            /\ firewalls' = t.firewalls
            /\ databases' = t.databases
            /\ webservices' = t.webservices
            /\ hackers' = t.hackers
            /\ breach' = t.breach
            /\ discard' = t.discard
            /\ round' = t.round
            /\ facing' = t.facing
            /\ active_operator' = t.active_operator
            /\ operators' = t.operators
            /\ choice_state' = t.choice_state
            /\ dealt' = t.hackers
    /\ UNCHANGED <<config, new_call, last, steps>>

NextSession ==
    \/ NewConfig
    \/ SetupGame

SpecSession == InitSession /\ [][NextSession]_vars

\* ------------------------------------------------------------------------
\* Properties
\* ------------------------------------------------------------------------
Accepted == last.result = "ok"
Rejected == last.result \notin {"none", "ok"}
\* this step is a call of perform
PerformStep == steps' = steps + 1
PerformOf(type) == PerformStep /\ last'.event.type = type

\* the card ids of a deck, in order
HackerIds(deck) == [i \in 1..Len(deck) |-> deck[i].hacker]
IsCard(id) == id # NO_HACKER
\* the cards on the boards of operators 1..k: secure slots and backtrace lists
RECURSIVE BoardCards(_)
BoardCards(k) ==
    IF k = 0 THEN <<>>
    ELSE BoardCards(k - 1)
         \o SelectSeq(operators[k].secure_slots, IsCard)
         \o operators[k].backtrace_list
\* every card on the table, location by location
CardLocations ==
    HackerIds(hackers) \o HackerIds(breach) \o HackerIds(discard)
    \o BoardCards(Len(operators))
    \o (IF facing # NO_HACKER THEN <<facing>> ELSE <<>>)
SeqRange(s) == {s[i] : i \in 1..Len(s)}
NoDuplicates(s) == Cardinality(SeqRange(s)) = Len(s)

\* C1: in the state setup returns and in every state reached by accepted
\* perform events, no card id is in two locations or twice in one, and the
\* cards on the table are exactly the cards setup dealt into the draw pile.
C1_CardsInExactlyOneLocation ==
    /\ NoDuplicates(CardLocations)
    /\ SeqRange(CardLocations) = SeqRange(HackerIds(dealt))

\* a card has been moved from the draw pile into facing
C1_Witness ==
    /\ Accepted
    /\ last.event.type = "Face"
    /\ facing # NO_HACKER
    /\ Len(hackers) < Len(dealt)

\* the difficulty bonus: Easy 3, Normal 2, Hard 1, Heroic 0
DifficultyBonus(difficulty) ==
    CASE difficulty = "Easy"   -> 3
      [] difficulty = "Normal" -> 2
      [] difficulty = "Hard"   -> 1
      [] difficulty = "Heroic" -> 0
\* the session's initial maximum: operator count + difficulty bonus
InitialFirewalls == Len(config.operators) + DifficultyBonus(config.difficulty)

\* C2: the firewall count is at least 0 and at most the session's initial
\* maximum (operator count + difficulty bonus) in every reachable state.
C2_FirewallsBoundedByInitialMaximum ==
    firewalls >= 0 /\ firewalls <= InitialFirewalls

\* C3: a perform call that rejects its event leaves every field of the
\* TableState as it was.
C3_RejectedEventLeavesStateUnchanged ==
    [][(PerformStep /\ last'.result # "ok") => UNCHANGED tableVars]_vars

\* a Face was rejected after an earlier event had been accepted
C3_Witness ==
    /\ Rejected
    /\ last.event.type = "Face"
    /\ steps >= 2
    /\ facing # NO_HACKER

\* the sequence of Assist choices for a set of operator ids, in increasing order
RECURSIVE AssistsInOrder(_)
AssistsInOrder(S) ==
    IF S = {} THEN <<>>
    ELSE LET m == CHOOSE x \in S : \A y \in S : x <= y
         IN  <<ChoiceAssist(m)>> \o AssistsInOrder(S \ {m})
\* Idle, Face iff the draw pile is non-empty, Assist(i) for the roster
\* indices other than `excluded`
ExpectedChoices(excluded) ==
    <<ChoiceIdle>>
    \o (IF Len(hackers) > 0 THEN <<ChoiceFace>> ELSE <<>>)
    \o AssistsInOrder({i \in 0..(Len(operators) - 1) : i # excluded})
NumberOfAssists(choices) ==
    Cardinality({k \in 1..Len(choices) : choices[k].type = "Assist"})
InChooseAction == choice_state.tag = "ChooseAction"

EventOfChoice(choice) ==
    CASE choice.type = "Idle"   -> EvIdle
      [] choice.type = "Face"   -> EvFace
      [] choice.type = "Assist" -> EvAssist(choice.op)

\* C5: in every reachable choose-action state, perform accepts the event of
\* every choice that validChoices offers.
C5_OfferedChoicesAreAccepted ==
    InChooseAction =>
        \A k \in 1..Len(valid_choices(self).choices), overflow_checks \in BOOLEAN :
            perform(self, EventOfChoice(valid_choices(self).choices[k]),
                    overflow_checks).result = "ok"

\* C6: in a choose-action state validChoices offers Idle iff the deciding
\* operator is not idle; after an accepted Idle it is not offered any more.
C6_IdleOfferedIffNotIdle ==
    (InChooseAction /\ choice_state.op < Len(operators)) =>
        (ChoiceIdle \in SeqRange(valid_choices(self).choices)
            <=> ~operators[choice_state.op + 1].idle)

\* C7: FirewallDelta(d) is accepted exactly when firewalls + d is in 0..3 and
\* then firewalls becomes firewalls + d; otherwise it is rejected and
\* firewalls stays.
C7_FirewallDeltaBand ==
    [][PerformOf("FirewallDelta") =>
          IF firewalls + last'.event.delta \in 0..3
          THEN last'.result = "ok" /\ firewalls' = firewalls + last'.event.delta
          ELSE last'.result # "ok" /\ firewalls' = firewalls]_vars

\* firewalls went from 2 to 3 by FirewallDelta(1)
C7_Witness ==
    /\ Accepted
    /\ last.event.type = "FirewallDelta"
    /\ last.event.delta = 1
    /\ firewalls = 3

\* C8: Face is rejected when a card is being faced or the draw pile is empty;
\* otherwise the last card of the draw pile becomes facing, the pile keeps
\* its other cards in order, and a Face right after it is rejected.
C8_FaceMovesTopCard ==
    [][/\ PerformOf("Face") =>
          IF facing # NO_HACKER \/ Len(hackers) = 0
          THEN last'.result # "ok" /\ facing' = facing /\ hackers' = hackers
          ELSE /\ last'.result = "ok"
               /\ facing' = hackers[Len(hackers)].hacker
               /\ facing' # NO_HACKER
               /\ Len(hackers') = Len(hackers) - 1
               /\ \A i \in 1..Len(hackers') : hackers'[i] = hackers[i]
       /\ (PerformOf("Face") /\ Accepted /\ last.event.type = "Face")
              => last'.result # "ok"]_vars

\* the top card was faced and a second Face was then rejected
C8_Witness ==
    /\ last.result = "cannot face, already facing"
    /\ Len(hackers) = Len(dealt) - 1
    /\ facing = dealt[Len(dealt)].hacker
    /\ hackers = SubSeq(dealt, 1, Len(dealt) - 1)

\* C9: DatabaseRemove(i) is accepted exactly when i is in 0..2 and
\* databases[i] is present; it then clears databases[i] only; any other
\* index is rejected, and a removed database never comes back, so each
\* database is removed at most once.
C9_DatabaseRemoveOnce ==
    [][/\ PerformOf("DatabaseRemove") =>
          LET i == last'.event.idx
          IN  IF i \in 0..2 /\ databases[i]
              THEN /\ last'.result = "ok"
                   /\ databases' = [databases EXCEPT ![i] = FALSE]
              ELSE last'.result # "ok" /\ databases' = databases
       /\ \A i \in 0..2 : ~databases[i] => ~databases'[i]]_vars

\* a database was removed and its second removal was rejected
C9_Witness ==
    /\ last.result = "database already removed"
    /\ last.event.type = "DatabaseRemove"
    /\ ~databases[last.event.idx]

\* C10: WebserviceRemove(i) is accepted for every i in 0..5 whose webservice
\* is present and then clears webservices[i] only; an index of 6 or more or
\* an absent webservice is rejected; a removed webservice never comes back.
C10_WebserviceRemoveOnce ==
    [][/\ PerformOf("WebserviceRemove") =>
          LET i == last'.event.idx
          IN  IF i \in 0..5 /\ webservices[i]
              THEN /\ last'.result = "ok"
                   /\ webservices' = [webservices EXCEPT ![i] = FALSE]
              ELSE last'.result # "ok" /\ webservices' = webservices
       /\ \A i \in 0..5 : ~webservices[i] => ~webservices'[i]]_vars

\* C11: Idle is accepted exactly when the active operator is not idle; it
\* then sets the idle flag of the active operator and of no other operator;
\* an Idle right after an accepted Idle is rejected.
C11_IdleMarksActiveOperator ==
    [][/\ PerformOf("Idle") =>
          IF ~operators[active_operator + 1].idle
          THEN /\ last'.result = "ok"
               /\ operators'[active_operator + 1].idle
               /\ \A i \in 1..Len(operators) :
                      i # active_operator + 1 => operators'[i] = operators[i]
               /\ operators'[active_operator + 1] =
                      [operators[active_operator + 1] EXCEPT !.idle = TRUE]
          ELSE last'.result # "ok" /\ operators' = operators
       /\ (PerformOf("Idle") /\ Accepted /\ last.event.type = "Idle")
              => last'.result # "ok"]_vars

\* the active operator of a roster of two idled, and the second Idle was rejected
C11_Witness ==
    /\ last.result = "cannot idle, already idle"
    /\ Len(operators) = 2
    /\ operators[active_operator + 1].idle
    /\ ~operators[2].idle

\* setup_game has built the TableState
SetUp == choice_state # NoChoiceState

\* C12: for every valid config setup yields firewalls = operator count +
\* bonus (Easy 3, Normal 2, Hard 1, Heroic 0), all databases and webservices
\* present, empty breach and discard, round 0, no card faced, active operator
\* 0, choose-action(0), and one fresh OperatorState per roster entry at the
\* same index with granted skills exactly its own type.
C12_SetupInitialState ==
    SetUp =>
        /\ Len(config.operators) \in 1..7
        /\ firewalls = Len(config.operators) + DifficultyBonus(config.difficulty)
        /\ DOMAIN databases = 0..2 /\ \A i \in 0..2 : databases[i]
        /\ DOMAIN webservices = 0..5 /\ \A i \in 0..5 : webservices[i]
        /\ Len(breach) = 0 /\ Len(discard) = 0
        /\ round = 0
        /\ facing = NO_HACKER
        /\ active_operator = 0
        /\ choice_state = ChooseAction(0)
        /\ Len(operators) = Len(config.operators)
        /\ \A i \in 1..Len(operators) :
               /\ operators[i].secure_slots = <<NO_HACKER, NO_HACKER, NO_HACKER>>
               /\ Len(operators[i].backtrace_list) = 0
               /\ ~operators[i].burnout
               /\ ~operators[i].desperation
               /\ ~operators[i].idle
               /\ operators[i].skills = <<config.operators[i]>>

\* the multiplier of the draw pile: Easy 6, Normal, Hard and Heroic 7
DifficultyMultiplier(difficulty) == IF difficulty = "Easy" THEN 6 ELSE 7

\* C13: the draw pile setup builds has operator count x multiplier cards,
\* pairwise distinct, each a catalog card of value <= 4 (never the no-card
\* sentinel), each face-down.
C13_DrawPileOfSetup ==
    SetUp =>
        /\ Len(hackers) = Len(config.operators) * DifficultyMultiplier(config.difficulty)
        /\ \A i, j \in 1..Len(hackers) : i # j => hackers[i].hacker # hackers[j].hacker
        /\ \A i \in 1..Len(hackers) :
               /\ hackers[i].hacker \in 0..(HackerCount - 1)
               /\ hackers[i].hacker # NO_HACKER
               /\ HackerValue(hackers[i].hacker) \in 1..4
               /\ ~hackers[i].face_up
C13_Witness ==
    /\ SetUp
    /\ Len(config.operators) = 7
    /\ config.difficulty = "Heroic"
    /\ Len(hackers) = 49
    /\ \E i \in 1..Len(hackers) : HackerValue(hackers[i].hacker) = 4

\* positions of the roster at which a type occurs that occurred before
RepeatPositions(ops) ==
    {j \in 1..Len(ops) : \E i \in 1..(j - 1) : ops[i] = ops[j]}
Occurrences(ops, t) == Cardinality({i \in 1..Len(ops) : ops[i] = t})

\* C14: GameConfig::new of an empty roster is Err(NoOperators); of a roster
\* with a repeated type it is Err(DuplicateOperator(t)), t being the type at
\* the first position of the scan that repeats an earlier one (so t occurs at
\* least twice); in both cases no config is produced.
C14_NewFailsClosed ==
    new_call.called =>
        LET ops == new_call.operators
            res == new_call.result
        IN  /\ Len(ops) = 0 => ~res.ok /\ res.error = [kind |-> "NoOperators"]
            /\ RepeatPositions(ops) # {} =>
                   /\ ~res.ok
                   /\ res.error.kind = "DuplicateOperator"
                   /\ Occurrences(ops, res.error.operator) >= 2
                   /\ \E j \in RepeatPositions(ops) :
                          /\ ops[j] = res.error.operator
                          /\ \A k \in RepeatPositions(ops) : j <= k
            /\ ~res.ok => "config" \notin DOMAIN res /\ config = NoConfig /\ ~SetUp
C14_Witness ==
    /\ new_call.called
    /\ Len(new_call.operators) = 4
    /\ new_call.operators[1] = new_call.operators[4]
    /\ new_call.operators[2] = new_call.operators[3]
    /\ new_call.operators[1] # new_call.operators[2]
    /\ new_call.result = ConfigErr(DuplicateOperator(new_call.operators[2]))
    /\ config = NoConfig

\* C15: GameConfig::new is Ok exactly for a non-empty roster without a
\* repeated type; the config then holds the given difficulty and the given
\* roster in the same order; otherwise there is no config at all.
C15_NewSucceedsIffValid ==
    new_call.called =>
        LET ops == new_call.operators
            res == new_call.result
            valid == Len(ops) > 0 /\ \A i, j \in 1..Len(ops) : i # j => ops[i] # ops[j]
        IN  /\ res.ok <=> valid
            /\ valid => /\ DOMAIN res = {"ok", "config"}
                        /\ res.config.difficulty = new_call.difficulty
                        /\ res.config.operators = ops
                        /\ config = res.config
            /\ ~valid => DOMAIN res = {"ok", "error"} /\ config = NoConfig
C15_Witness ==
    /\ new_call.called
    /\ new_call.result.ok
    /\ new_call.difficulty = "Hard"
    /\ Len(new_call.operators) = 3
    /\ new_call.operators[1] # OPERATORS[1]
    /\ config = [difficulty |-> "Hard", operators |-> new_call.operators]
    /\ SetUp
    /\ \A i \in 1..3 : operators[i].skills = <<new_call.operators[i]>>

\* performing a list of events in order from t: every step is accepted
RECURSIVE AllAccepted(_, _)
AllAccepted(t, events) ==
    IF events = <<>> THEN TRUE
    ELSE /\ \A overflow_checks \in BOOLEAN :
                perform(t, Head(events), overflow_checks).result = "ok"
         /\ AllAccepted(perform(t, Head(events), FALSE).state, Tail(events))

\* C16: in every reachable choose-action state, for every choice validChoices
\* offers, choose returns (instead of aborting) a list of events that perform
\* accepts one after the other.
C16_ChooseReturnsAcceptedEvents ==
    InChooseAction =>
        \A k \in 1..Len(valid_choices(self).choices) :
            /\ ~choose(self, valid_choices(self).choices[k]).panic
            /\ AllAccepted(self, choose(self, valid_choices(self).choices[k]).events)

\* C17: a perform in a game-over state leaves the TableState unchanged.
C17_GameOverIsTerminal ==
    [][(PerformStep /\ choice_state = GameOver) => UNCHANGED tableVars]_vars

\* C18: in every reachable machine state validChoices returns a list of
\* choices instead of aborting.
C18_ValidChoicesInEveryState == ~valid_choices(self).panic

\* C19: Assist(target) of a roster index other than the active operator is
\* accepted and the target's granted skills then hold the active operator's
\* type next to its own, each type at most once; Assist(active operator) is
\* rejected.
C19_AssistGrantsSkill ==
    [][(PerformOf("Assist") /\ last'.event.op < Len(operators)) =>
          IF last'.event.op # active_operator
          THEN /\ last'.result = "ok"
               /\ SeqRange(operators'[last'.event.op + 1].skills)
                    = SeqRange(operators[last'.event.op + 1].skills)
                        \cup {config.operators[active_operator + 1]}
               /\ NoDuplicates(operators'[last'.event.op + 1].skills)
          ELSE last'.result # "ok"]_vars

\* C20: ActiveOperator(id) is accepted in every state and sets the
\* active-operator index to id.
C20_ActiveOperatorSetsTurnPointer ==
    [][PerformOf("ActiveOperator") =>
          /\ last'.result = "ok"
          /\ active_operator' = last'.event.op]_vars

\* C21: ChoiceState(next) is accepted in every state and the machine state
\* is next afterwards.
C21_ChoiceStateSetsMachineState ==
    [][PerformOf("ChoiceState") =>
          /\ last'.result = "ok"
          /\ choice_state' = last'.event.next]_vars
C21_Witness ==
    /\ Accepted
    /\ last.event = EvChoiceState(ChoiceStateWithOp("Face", 1))
    /\ choice_state = ChoiceStateWithOp("Face", 1)
    /\ steps = 2

\* C22: with no firewall left the machine state is game-over; no other
\* decision point is reached with firewalls = 0.
C22_NoFirewallsIsGameOver == firewalls = 0 => choice_state = GameOver

\* the table after performing a list of events in order from t
RECURSIVE PerformAll(_, _)
PerformAll(t, events) ==
    IF events = <<>> THEN t
    ELSE PerformAll(perform(t, Head(events), FALSE).state, Tail(events))

\* the roster indices after index op in clockwise order, op itself last
Clockwise(op, n) == [k \in 1..n |-> (op + k) % n]
\* the next operator to decide after op: the first one in clockwise order
\* that is not idle, or n when every operator is idle
RECURSIVE FirstNotIdle(_, _, _)
FirstNotIdle(t, order, k) ==
    IF k > Len(order) THEN Len(t.operators)
    ELSE IF ~t.operators[order[k] + 1].idle THEN order[k]
    ELSE FirstNotIdle(t, order, k + 1)
NextToDecide(t, op) == FirstNotIdle(t, Clockwise(op, Len(t.operators)), 1)

\* C23: after the action an operator chose has resolved, the operator to
\* decide next is the next roster index modulo operator count that is not
\* idle.
C23_TurnOrderClockwise ==
    (InChooseAction /\ choice_state.op < Len(operators)) =>
        \A k \in 1..Len(valid_choices(self).choices) :
            LET res   == choose(self, valid_choices(self).choices[k])
                after == PerformAll(self, res.events)
            IN  /\ ~res.panic
                /\ NextToDecide(after, choice_state.op) < Len(operators) =>
                       /\ after.choice_state.tag = "ChooseAction"
                       /\ after.choice_state.op = NextToDecide(after, choice_state.op)
                       /\ after.active_operator = after.choice_state.op

\* C24: setup is a function of what its caller passes: two calls of setup
\* with the same arguments build the same draw pile, the same cards in the
\* same order, and so the same TableState, whatever the state of the random
\* source that the caller has not chosen.
C24_SetupDeterministic ==
    SetUp =>
        \A seed \in 0..MaxSeed :
            /\ hackers = setup_game(config, seed).hackers
            /\ self = setup_game(config, seed)

\* C25: while a firewall is left, FirewallDelta(-1) is accepted and takes
\* exactly one firewall away.
C25_CanLoseOneFirewall ==
    firewalls >= 1 =>
        \A overflow_checks \in BOOLEAN :
            /\ perform(self, FirewallDelta(-1), overflow_checks).result = "ok"
            /\ perform(self, FirewallDelta(-1), overflow_checks).state.firewalls
                 = firewalls - 1

\* operator ids of the machine state
TaggedOperator(cs) == IF "op" \in DOMAIN cs THEN {cs.op} ELSE {}

\* C26: the active-operator index and the operator tagged in the machine
\* state are roster indices, less than the number of configured operators.
C26_OperatorIndicesInRoster ==
    /\ active_operator < Len(config.operators)
    /\ \A op \in TaggedOperator(choice_state) : op < Len(config.operators)

\* the fields of the TableState other than the named ones
FrameFirewalls ==
    <<databases, webservices, hackers, breach, discard, round, facing,
      active_operator, operators, choice_state>>
FrameDatabases ==
    <<firewalls, webservices, hackers, breach, discard, round, facing,
      active_operator, operators, choice_state>>
FrameWebservices ==
    <<firewalls, databases, hackers, breach, discard, round, facing,
      active_operator, operators, choice_state>>
FrameFace ==
    <<firewalls, databases, webservices, breach, discard, round,
      active_operator, operators, choice_state>>
FrameOperators ==
    <<firewalls, databases, webservices, hackers, breach, discard, round,
      facing, active_operator, choice_state>>
FrameChoiceState ==
    <<firewalls, databases, webservices, hackers, breach, discard, round,
      facing, active_operator, operators>>

\* C27: an accepted event changes only the fields its effect names:
\* FirewallDelta firewalls, DatabaseRemove(i) databases[i], WebserviceRemove(i)
\* webservices[i], Face the draw pile and facing, Idle the idle flag of the
\* active operator, ChoiceState the machine state.
C27_AcceptedEventFrame ==
    [][(PerformStep /\ last'.result = "ok") =>
          /\ last'.event.type \in {"FirewallDelta", "DatabaseRemove",
                "WebserviceRemove", "Face", "Idle", "ChoiceState"}
          /\ last'.event.type = "FirewallDelta" => UNCHANGED FrameFirewalls
          /\ last'.event.type = "DatabaseRemove" =>
                /\ UNCHANGED FrameDatabases
                /\ \A i \in DOMAIN databases :
                       i # last'.event.idx => databases'[i] = databases[i]
          /\ last'.event.type = "WebserviceRemove" =>
                /\ UNCHANGED FrameWebservices
                /\ \A i \in DOMAIN webservices :
                       i # last'.event.idx => webservices'[i] = webservices[i]
          /\ last'.event.type = "Face" => UNCHANGED FrameFace
          /\ last'.event.type = "Idle" =>
                /\ UNCHANGED FrameOperators
                /\ \A i \in DOMAIN operators :
                       /\ i # active_operator + 1 => operators'[i] = operators[i]
                       /\ operators'[i] = [operators[i] EXCEPT !.idle = operators'[i].idle]
          /\ last'.event.type = "ChoiceState" => UNCHANGED FrameChoiceState]_vars
C27_Witness ==
    /\ Accepted
    /\ last.event = WebserviceRemove(3)
    /\ steps = 2
    /\ ~webservices[3]
    /\ \A i \in 0..5 : i # 3 => webservices[i]
    /\ ~databases[1]

\* C28: for the firewall counts 0..10 and every i8 delta, FirewallDelta is
\* accepted only when the exact sum is in 0..3 and then stores the exact sum;
\* a sum outside -128..127 is never accepted, in no build.
C28_NoWrapIntoBand ==
    [][PerformOf("FirewallDelta") =>
          /\ last'.result = "ok" =>
                /\ firewalls + last'.event.delta \in 0..3
                /\ firewalls' = firewalls + last'.event.delta
          /\ firewalls + last'.event.delta \notin I8 =>
                /\ last'.result # "ok"
                /\ firewalls' = firewalls]_vars
\* 10 + 127 wrapped to -119 in a build without overflow checks and was rejected
C28_Witness ==
    /\ last.event = FirewallDelta(127)
    /\ firewalls = 10
    /\ last.result = "delta out of range"

====
